---- MODULE Spec2Model ----
(***************************************************************************)
(* Model of testfiles/makefile.py: a flat script that builds a bounding    *)
(* box and a 512x512 grid, labels the grid's four quadrants, asks the      *)
(* raster library for an affine transform and hands everything to          *)
(* raster.saveToCOG.                                                       *)
(*                                                                         *)
(* The state is that of the Python interpreter running the script:         *)
(*   pc       the statement that runs next                                 *)
(*   globals  the module namespace: name -> value; a dict or an array is   *)
(*            held by reference                                            *)
(*   heap     the mutable objects the script created, by reference         *)
(*   calls    the log of the calls made into the raster library, each with *)
(*            its arguments as passed and its outcome                      *)
(*   raised   the call whose exception is propagating, or "none"           *)
(*   stored   the log of the item assignments executed on the grid         *)
(* The raster library is not part of the script.  A call into it either    *)
(* returns an opaque value or raises; which one, and which value, is not   *)
(* decided by the script.                                                  *)
(***************************************************************************)
EXTENDS Integers, Sequences, FiniteSets, TLC

VARIABLES pc, globals, heap, calls, raised, stored

vars == <<pc, globals, heap, calls, raised, stored>>

(* Bounds: how many distinct opaque values each library call may return.   *)
MaxTransform == 10
MaxCogFile == 10

Transforms == 1 .. MaxTransform
CogFiles == 1 .. MaxCogFile

(* ---- literals of the script ------------------------------------------- *)
Rows == 512
Cols == 512
Half == 256
Width == 512
Height == 512
NoDataVal == -9999
Path == "testfile.tiff"
Crs == "EPSG:4326"
Mode == "direct"

BboxLiteral == [latMin |-> 0, lonMin |-> 0, latMax |-> 10, lonMax |-> 10]

(* ---- numpy ------------------------------------------------------------ *)
Min(a, b) == IF a < b THEN a ELSE b
Max(a, b) == IF a > b THEN a ELSE b

(* A slice bound as Python normalises it against an axis of length n:      *)
(* negative bounds count from the end, and the result is clamped to 0..n.  *)
SliceBound(i, n) == IF i < 0 THEN Max(i + n, 0) ELSE Min(i, n)

(* Indices selected by a[:stop] and a[start:] on an axis of length n.      *)
SliceToInclusive(stop, n) == 0 .. SliceBound(stop, n)
SliceTo(stop, n) == 0 .. (SliceBound(stop, n) - 1)
SliceFromOffByOne(start, n) == (SliceBound(start, n) + 1) .. (n - 1)
SliceFrom(start, n) == SliceBound(start, n) .. (n - 1)

(* A 2-D array is its row-major buffer: a sequence of rows, each a         *)
(* sequence of cells.  Indices count from 0: cell (r, c) is the (c+1)-th   *)
(* element of the (r+1)-th row.                                            *)
NRows(a) == Len(a)
NCols(a) == Len(a[1])
GetItem(a, r, c) == a[r + 1][c + 1]

(* np.zeros(shape) *)
Zeros(shape) == [i \in 1 .. shape[1] |-> [j \in 1 .. shape[2] |-> 0]]

(* a[rows, cols] = v: every selected cell is set to v, the others are kept *)
SetItem(a, rows, cols, v) ==
  [i \in 1 .. NRows(a) |-> [j \in 1 .. NCols(a) |->
     IF (i - 1) \in rows /\ (j - 1) \in cols THEN v ELSE a[i][j]]]

(* ---- names and objects ------------------------------------------------ *)
Bound(name) == name \in DOMAIN globals
Bind(name, value) == [n \in DOMAIN globals \cup {name} |->
                        IF n = name THEN value ELSE globals[n]]

(* A new object is placed after the existing ones; its reference is its    *)
(* place in the heap.                                                      *)
Ref(id) == [ref |-> id]
NewRef == Ref(Len(heap) + 1)
Deref(name) == heap[globals[name].ref]

Init ==
  /\ pc = "import"
  /\ globals = [n \in {} |-> 0]
  /\ heap = <<>>
  /\ calls = <<>>
  /\ raised = "none"
  /\ stored = <<>>

(* lines 2-3: import numpy as np; from raster import saveToCOG, makeTransform *)
Import ==
  /\ pc = "import"
  /\ pc' = "bbox"
  /\ UNCHANGED <<globals, heap, calls, raised, stored>>

(* line 8: bbox = {"latMin": 0, "lonMin": 0, "latMax": 10, "lonMax": 10}   *)
AssignBbox ==
  /\ pc = "bbox"
  /\ heap' = Append(heap, BboxLiteral)
  /\ globals' = Bind("bbox", NewRef)
  /\ pc' = "zeros"
  /\ UNCHANGED <<calls, raised, stored>>

(* line 10: data = np.zeros((512, 512)) *)
AssignData ==
  /\ pc = "zeros"
  /\ heap' = Append(heap, Zeros(<<Rows, Cols>>))
  /\ globals' = Bind("data", NewRef)
  /\ pc' = "q1"
  /\ UNCHANGED <<calls, raised, stored>>

(* An item assignment data[rows, cols] = v: the array that data refers to  *)
(* is changed in place.                                                    *)
StoreData(rows, cols, v) ==
  /\ heap' = [heap EXCEPT ![globals.data.ref] = SetItem(@, rows, cols, v)]
  /\ stored' = Append(stored, [rows |-> rows, cols |-> cols, value |-> v])
  /\ UNCHANGED globals

(* line 11: data[:256, :256] = 1 *)
Quadrant1 ==
  /\ pc = "q1"
  /\ StoreData(SliceTo(Half, NRows(Deref("data"))), SliceTo(Half, NCols(Deref("data"))), 1)
  /\ pc' = "q2"
  /\ UNCHANGED <<calls, raised>>

(* line 12: data[256:, :256] = 2 *)
Quadrant2 ==
  /\ pc = "q2"
  /\ StoreData(SliceFrom(Half, NRows(Deref("data"))), SliceTo(Half, NCols(Deref("data"))), 2)
  /\ pc' = "q3"
  /\ UNCHANGED <<calls, raised>>

Quadrant3SkipsLine14 ==
  /\ pc = "q3"
  /\ StoreData(SliceFrom(Half, NRows(Deref("data"))), SliceFrom(Half, NCols(Deref("data"))), 3)
  /\ pc' = "makeTransform"
  /\ UNCHANGED <<calls, raised>>

(* line 13: data[256:, 256:] = 3 *)
Quadrant3 ==
  /\ pc = "q3"
  /\ StoreData(SliceFrom(Half, NRows(Deref("data"))), SliceFrom(Half, NCols(Deref("data"))), 3)
  /\ pc' = "q4"
  /\ UNCHANGED <<calls, raised>>

(* line 14: data[:256, 256:] = 4 *)
Quadrant4 ==
  /\ pc = "q4"
  /\ StoreData(SliceTo(Half, NRows(Deref("data"))), SliceFrom(Half, NCols(Deref("data"))), 4)
  /\ pc' = "makeTransform"
  /\ UNCHANGED <<calls, raised>>

(* ---- calls into the raster library ------------------------------------ *)
NoKwargs == [n \in {} |-> 0]
Call(fn, args, kwargs) ==
  [fn |-> fn, args |-> args, kwargs |-> kwargs, outcome |-> <<"pending">>]

(* The last call of the log ends: it returned value, or it raised.         *)
Returned(value) == [calls EXCEPT ![Len(calls)].outcome = <<"returned", value>>]
Raised == [calls EXCEPT ![Len(calls)].outcome = <<"raised">>]

(* line 17: the arguments of makeTransform(512, 512, bbox) *)
MakeTransformArgsHalfWidth == <<Half, Height, globals.bbox>>
MakeTransformArgs == <<Width, Height, globals.bbox>>

(* line 17: makeTransform is entered *)
CallMakeTransform ==
  /\ pc = "makeTransform"
  /\ calls' = Append(calls, Call("makeTransform", MakeTransformArgs, NoKwargs))
  /\ pc' = "in makeTransform"
  /\ UNCHANGED <<globals, heap, raised, stored>>

MakeTransformReturnsRebound(t) ==
  /\ pc = "in makeTransform"
  /\ calls' = Returned(t)
  /\ globals' = Bind("transform", (t % MaxTransform) + 1)
  /\ pc' = "saveToCOG"
  /\ UNCHANGED <<heap, raised, stored>>

(* line 17: makeTransform returns t, which is bound to transform *)
MakeTransformReturns(t) ==
  /\ pc = "in makeTransform"
  /\ calls' = Returned(t)
  /\ globals' = Bind("transform", t)
  /\ pc' = "saveToCOG"
  /\ UNCHANGED <<heap, raised, stored>>

MakeTransformRaisesSwallowed ==
  /\ pc = "in makeTransform"
  /\ calls' = Raised
  /\ globals' = Bind("transform", 0)
  /\ pc' = "saveToCOG"
  /\ UNCHANGED <<heap, raised, stored>>

(* line 17: makeTransform raises; nothing catches it, the script ends      *)
MakeTransformRaises ==
  /\ pc = "in makeTransform"
  /\ calls' = Raised
  /\ raised' = "makeTransform"
  /\ pc' = "failed"
  /\ UNCHANGED <<globals, heap, stored>>

(* line 19: the arguments of saveToCOG("testfile.tiff", data, "EPSG:4326", *)
(* transform, noDataVal=-9999, mode="direct")                              *)
SaveToCOGArgs == <<Path, globals.data, Crs, globals.transform>>
SaveToCOGKwargsNoDataZero == [noDataVal |-> 0, mode |-> Mode]
SaveToCOGKwargs == [noDataVal |-> NoDataVal, mode |-> Mode]

CallSaveToCOGSkipped ==
  /\ pc = "saveToCOG"
  /\ pc' = "done"
  /\ UNCHANGED <<globals, heap, calls, raised, stored>>

(* line 19: saveToCOG is entered *)
CallSaveToCOG ==
  /\ pc = "saveToCOG"
  /\ calls' = Append(calls, Call("saveToCOG", SaveToCOGArgs, SaveToCOGKwargs))
  /\ pc' = "in saveToCOG"
  /\ UNCHANGED <<globals, heap, raised, stored>>

(* line 19: saveToCOG returns f, which is bound to cogFile; end of script  *)
SaveToCOGReturns(f) ==
  /\ pc = "in saveToCOG"
  /\ calls' = Returned(f)
  /\ globals' = Bind("cogFile", f)
  /\ pc' = "done"
  /\ UNCHANGED <<heap, raised, stored>>

SaveToCOGRaisesRetried ==
  /\ pc = "in saveToCOG"
  /\ calls' = Raised
  /\ pc' = "saveToCOG"
  /\ UNCHANGED <<globals, heap, raised, stored>>

(* line 19: saveToCOG raises; nothing catches it, the script ends          *)
SaveToCOGRaises ==
  /\ pc = "in saveToCOG"
  /\ calls' = Raised
  /\ raised' = "saveToCOG"
  /\ pc' = "failed"
  /\ UNCHANGED <<globals, heap, stored>>

Next ==
  \/ Import
  \/ AssignBbox
  \/ AssignData
  \/ Quadrant1
  \/ Quadrant2
  \/ Quadrant3
  \/ Quadrant4
  \/ CallMakeTransform
  \/ \E t \in Transforms : MakeTransformReturns(t)
  \/ MakeTransformRaises
  \/ CallSaveToCOG
  \/ \E f \in CogFiles : SaveToCOGReturns(f)
  \/ SaveToCOGRaises

Spec == Init /\ [][Next]_vars

(* The interpreter always executes the next statement, and a call into the *)
(* library that was entered ends: it returns or it raises.                 *)
FairSpec == Spec /\ WF_vars(Next)

(* ---- vocabulary of the properties ------------------------------------- *)
CallsOf(fn) == {i \in 1 .. Len(calls) : calls[i].fn = fn}
Invoked(fn) == CallsOf(fn) # {}
HasReturned(i) == calls[i].outcome[1] = "returned"
HasRaised(i) == calls[i].outcome[1] = "raised"
Terminated == pc \in {"done", "failed"}

(* The label the documentation gives the cell (r, c) of the 512x512 grid.  *)
QuadrantLabel(r, c) ==
  IF r < 256 /\ c < 256 THEN 1
  ELSE IF r >= 256 /\ c < 256 THEN 2
  ELSE IF r >= 256 /\ c >= 256 THEN 3
  ELSE 4

ZeroLabel(r, c) == 0

(* The array of n rows and m columns whose cell (r, c) holds F(r, c).      *)
ArrayOf(F(_, _), n, m) == [i \in 1 .. n |-> [j \in 1 .. m |-> F(i - 1, j - 1)]]

(* The grid the documentation describes and the all-zero grid it starts    *)
(* from; the number of rows of a grid g in which exactly k cells hold v.   *)
QuadrantGrid == ArrayOf(QuadrantLabel, 512, 512)
ZeroGrid == ArrayOf(ZeroLabel, 512, 512)
RowsWith(g, v, k) ==
  {r \in 0 .. (NRows(g) - 1) :
     Cardinality({c \in 0 .. (NCols(g) - 1) : GetItem(g, r, c) = v}) = k}
QuadrantRows == [v \in {1, 2, 3, 4} |-> Cardinality(RowsWith(QuadrantGrid, v, 256))]
OtherRows == [v \in {1, 2, 3, 4} |-> Cardinality(RowsWith(QuadrantGrid, v, 0))]

(* The four quadrant assignments have all run.                             *)
QuadrantsAssigned ==
  pc \in {"makeTransform", "in makeTransform", "saveToCOG", "in saveToCOG", "done", "failed"}

(* ---- C1 --------------------------------------------------------------- *)
(* C1: once the four quadrant assignments have run on the 512x512 grid     *)
(* (all zero when it is built), cell (r, c) holds 1 for r < 256, c < 256,  *)
(* 2 for r >= 256, c < 256, 3 for r >= 256, c >= 256 and 4 for r < 256,    *)
(* c >= 256; each of the four distinct labels covers 256x256 cells: 256    *)
(* rows hold it in exactly 256 cells and the other 256 rows in none.       *)
C1_QuadrantValues ==
  /\ pc = "q1" => Deref("data") = ZeroGrid
  /\ QuadrantsAssigned =>
       /\ Deref("data") = QuadrantGrid
       /\ \A v \in {1, 2, 3, 4} : QuadrantRows[v] = 256 /\ OtherRows[v] = 256

C1_Witness ==
  /\ pc = "makeTransform"
  /\ Len(stored) = 4
  /\ GetItem(Deref("data"), 0, 0) = 1
  /\ GetItem(Deref("data"), 511, 0) = 2
  /\ GetItem(Deref("data"), 511, 511) = 3
  /\ GetItem(Deref("data"), 0, 511) = 4

(* ---- C2 --------------------------------------------------------------- *)
(* What has happened so far, read off the state: the names that are bound, *)
(* the labels the grid carries and the calls in the log.                   *)
QuadrantHolds(v) ==
  /\ Bound("data")
  /\ \E r \in {0, 511}, c \in {0, 511} :
       QuadrantLabel(r, c) = v /\ GetItem(Deref("data"), r, c) = v

Progress ==
  << Bound("bbox"),
     Bound("data"),
     QuadrantHolds(1),
     QuadrantHolds(2),
     QuadrantHolds(3),
     QuadrantHolds(4),
     Invoked("makeTransform"),
     \E i \in CallsOf("makeTransform") : HasReturned(i),
     Invoked("saveToCOG") >>

(* C2: the steps happen in one fixed order: bounding box, zeroed grid, the *)
(* four quadrant assignments, the call of makeTransform, the call of       *)
(* saveToCOG.  No step has happened unless every earlier one has, and      *)
(* saveToCOG is invoked only after the four assignments are complete and   *)
(* makeTransform has returned, later in the log than makeTransform.        *)
C2_FixedOrder ==
  /\ \A k \in 2 .. Len(Progress) : Progress[k] => Progress[k - 1]
  /\ \A j \in CallsOf("saveToCOG") :
       /\ Len(stored) = 4
       /\ heap[calls[j].args[2].ref] = QuadrantGrid
       /\ \E i \in CallsOf("makeTransform") : i < j /\ HasReturned(i)

C2_Witness ==
  /\ pc = "in saveToCOG"
  /\ \A k \in 1 .. Len(Progress) : Progress[k]

(* ---- C3 --------------------------------------------------------------- *)
(* C3: saveToCOG is invoked at most once and makeTransform at most once;   *)
(* when the script has ended and makeTransform returned, saveToCOG was     *)
(* invoked exactly once, and its output path is "testfile.tiff".           *)
C3_OneWrite ==
  /\ Cardinality(CallsOf("saveToCOG")) <= 1
  /\ Cardinality(CallsOf("makeTransform")) <= 1
  /\ (Terminated /\ \E i \in CallsOf("makeTransform") : HasReturned(i)) =>
       /\ Cardinality(CallsOf("saveToCOG")) = 1
       /\ \A j \in CallsOf("saveToCOG") : calls[j].args[1] = "testfile.tiff"

C3_Witness ==
  /\ pc = "done"
  /\ Cardinality(CallsOf("makeTransform")) = 1
  /\ Cardinality(CallsOf("saveToCOG")) = 1
  /\ calls[2].args[1] = "testfile.tiff"

(* ---- C4 --------------------------------------------------------------- *)
(* C4: values are created once and passed once.  In every step: a bound    *)
(* bounding box stays the same object with the same content; the transform *)
(* in a saveToCOG call is the value makeTransform returned; and once       *)
(* saveToCOG has been invoked the grid, the bounding box and the transform *)
(* stay what they are and no further call is made.                         *)
C4_Step ==
  /\ Bound("bbox") =>
       /\ "bbox" \in DOMAIN globals'
       /\ globals'.bbox = globals.bbox
       /\ heap'[globals.bbox.ref] = heap[globals.bbox.ref]
  /\ \A j \in {k \in 1 .. Len(calls') : calls'[k].fn = "saveToCOG"} :
       \E i \in 1 .. (j - 1) :
         /\ calls'[i].fn = "makeTransform"
         /\ calls'[i].outcome = <<"returned", calls'[j].args[4]>>
  /\ Invoked("saveToCOG") =>
       /\ \A n \in {"data", "bbox", "transform"} :
            n \in DOMAIN globals' /\ globals'[n] = globals[n]
       /\ heap' = heap
       /\ Len(calls') = Len(calls)
       /\ \A k \in 1 .. Len(calls) :
            calls'[k].fn = calls[k].fn /\ calls'[k].args = calls[k].args

C4_CreatedOncePassedOnce == [][C4_Step]_vars

C4_Witness ==
  /\ pc = "done"
  /\ calls[1].outcome = <<"returned", calls[2].args[4]>>
  /\ globals.data = calls[2].args[2]
  /\ globals.transform = calls[2].args[4]
  /\ globals.bbox = calls[1].args[3]
  /\ Deref("bbox") = BboxLiteral

(* ---- C5 --------------------------------------------------------------- *)
(* C5: no retry, no recovery.  If makeTransform raised, the script has     *)
(* failed and saveToCOG was never invoked; if saveToCOG raised, the script *)
(* has failed and saveToCOG was invoked that one time only; a failed       *)
(* script takes no further step.                                           *)
C5_NoRecovery ==
  /\ \A i \in CallsOf("makeTransform") : HasRaised(i) =>
       /\ pc = "failed"
       /\ raised = "makeTransform"
       /\ ~Invoked("saveToCOG")
  /\ \A j \in CallsOf("saveToCOG") : HasRaised(j) =>
       /\ pc = "failed"
       /\ raised = "saveToCOG"
       /\ Cardinality(CallsOf("saveToCOG")) = 1
  /\ pc = "failed" => ~ENABLED Next

C5_Witness ==
  /\ pc = "failed"
  /\ raised = "makeTransform"
  /\ HasRaised(1)
  /\ ~Invoked("saveToCOG")

(* ---- C6 --------------------------------------------------------------- *)
(* C6: the saveToCOG call receives the path "testfile.tiff", the grid the  *)
(* script built (the object data refers to, carrying the four labels), the *)
(* CRS "EPSG:4326", the transform makeTransform returned, noDataVal -9999  *)
(* and mode "direct", whatever makeTransform returned.                     *)
C6_SaveArguments ==
  \A j \in CallsOf("saveToCOG") :
    /\ calls[j].args = <<"testfile.tiff", globals.data, "EPSG:4326", globals.transform>>
    /\ heap[calls[j].args[2].ref] = QuadrantGrid
    /\ calls[j].kwargs = [noDataVal |-> -9999, mode |-> "direct"]
    /\ \E i \in CallsOf("makeTransform") :
         calls[i].outcome = <<"returned", calls[j].args[4]>>

C6_Witness ==
  /\ pc = "in saveToCOG"
  /\ calls[2].fn = "saveToCOG"
  /\ calls[2].args[4] = MaxTransform
  /\ calls[2].kwargs.noDataVal = -9999

(* ---- C7 --------------------------------------------------------------- *)
FinishedWritten ==
  /\ pc = "done"
  /\ raised = "none"
  /\ \A i \in 1 .. Len(calls) : HasReturned(i)
  /\ \E j \in CallsOf("saveToCOG") : calls[j].args[1] = "testfile.tiff" /\ HasReturned(j)

(* C7: if no call into the library raises, the run ends in the finished    *)
(* state: saveToCOG has returned from writing "testfile.tiff" and nothing  *)
(* was raised.                                                             *)
C7_ProducesFile == [](raised = "none") => <>FinishedWritten

C7_Witness == FinishedWritten /\ Bound("cogFile")

(* ---- C8 --------------------------------------------------------------- *)
(* C8: makeTransform is passed width 512 and height 512, the numbers of    *)
(* columns and rows of the grid later passed to saveToCOG, and the         *)
(* bounding box the script built: latMin 0, lonMin 0, latMax 10, lonMax    *)
(* 10, so latMin < latMax and lonMin < lonMax.                             *)
C8_TransformArguments ==
  \A i \in CallsOf("makeTransform") :
    /\ calls[i].args[1] = 512
    /\ calls[i].args[2] = 512
    /\ calls[i].args[3] = globals.bbox
    /\ LET b == heap[calls[i].args[3].ref] IN
         /\ b = [latMin |-> 0, lonMin |-> 0, latMax |-> 10, lonMax |-> 10]
         /\ b.latMin < b.latMax
         /\ b.lonMin < b.lonMax
    /\ \A j \in CallsOf("saveToCOG") :
         /\ calls[i].args[1] = NCols(heap[calls[j].args[2].ref])
         /\ calls[i].args[2] = NRows(heap[calls[j].args[2].ref])

C8_Witness ==
  /\ pc = "in saveToCOG"
  /\ calls[1].fn = "makeTransform"
  /\ calls[1].args[1] = 512
  /\ NCols(heap[calls[2].args[2].ref]) = 512
  /\ NRows(heap[calls[2].args[2].ref]) = 512

(* ---- C9 --------------------------------------------------------------- *)
(* The executed item assignments that stored into cell (r, c).             *)
StoresInto(r, c) == {k \in 1 .. Len(stored) : r \in stored[k].rows /\ c \in stored[k].cols}

(* C9: the four assignments partition the grid.  No two executed           *)
(* assignments share a cell, and when saveToCOG is invoked four have run,  *)
(* every cell was stored into by exactly one of them and the grid passed   *)
(* holds a value in {1, 2, 3, 4} in every cell: never the initial 0, never *)
(* the no-data sentinel -9999.                                             *)
C9_Partition ==
  /\ \A k, l \in 1 .. Len(stored) : k # l =>
       \/ stored[k].rows \cap stored[l].rows = {}
       \/ stored[k].cols \cap stored[l].cols = {}
  /\ Invoked("saveToCOG") => Len(stored) = 4
  /\ pc = "in saveToCOG" =>
       \A j \in CallsOf("saveToCOG") :
         LET g == heap[calls[j].args[2].ref] IN
           \A r \in 0 .. 511 : \A c \in 0 .. 511 :
             /\ Cardinality(StoresInto(r, c)) = 1
             /\ GetItem(g, r, c) \in {1, 2, 3, 4}
             /\ GetItem(g, r, c) # 0
             /\ GetItem(g, r, c) # -9999

C9_Witness ==
  /\ pc = "in saveToCOG"
  /\ Len(stored) = 4
  /\ StoresInto(0, 0) = {1}
  /\ StoresInto(256, 255) = {2}
  /\ StoresInto(256, 256) = {3}
  /\ StoresInto(255, 256) = {4}

====
